---- MODULE Spec2Model ----
(***************************************************************************)
(* Forensic timeline generator (src/main.py).                              *)
(*                                                                         *)
(* Text is a sequence of one-character strings.  A point in time is the    *)
(* tuple <<year, month, day, hour, minute, second, microsecond>>, compared *)
(* lexicographically as datetime objects are; None is the empty tuple.     *)
(***************************************************************************)
EXTENDS Integers, Sequences, FiniteSets, TLC

VARIABLES
    pc,                 \* position of main(), or of the call of parse_log_entry alone
    log_files,          \* args.log_files: the paths given on the command line
    tsf,                \* args.timestamp_format (<<>> when the option is absent)
    keywords,           \* args.keywords: [given |-> FALSE] is None
    priority,           \* args.priority
    timestamp_formats,  \* main(): the grammar list in use
    min_priority_level, \* main(): EVENT_PRIORITIES[args.priority]
    file_idx,           \* main(): index of the file of the loop at line 139
    line_idx,           \* process_log_file(): lines of the open file read so far
    events,             \* process_log_file(): the local list `events`
    all_events,         \* main(): all_events
    warnings,           \* lines logged by logging.warning at line 104
    errors,             \* logging.error records: <<kind, path>>
    parsed,             \* <<file index, line index>> handed to parse_log_entry
    file_done,          \* per file processed: lines read, and whether I/O failed
    timeline,           \* rows of the sorted data frame
    output,             \* the CSV file: [written |-> BOOLEAN, rows |-> Seq]
    exit_status,        \* process exit status (-1 while running)
    entry,              \* parse_log_entry called alone: its log_entry argument
    entry_formats,      \* parse_log_entry called alone: its timestamp_formats
    entry_result        \* parse_log_entry called alone: the value returned

vars == <<pc, log_files, tsf, keywords, priority, timestamp_formats,
          min_priority_level, file_idx, line_idx, events, all_events, warnings,
          errors, parsed, file_done, timeline, output, exit_status,
          entry, entry_formats, entry_result>>

----------------------------------------------------------------------------
(* Characters *)

None == <<>>

Whitespace == {" ", "\t", "\n"}

DIGITS == <<"0", "1", "2", "3", "4", "5", "6", "7", "8", "9">>

UPPERCASE == <<"A", "B", "C", "D", "E", "F", "G", "H", "I", "J", "K", "L", "M",
               "N", "O", "P", "Q", "R", "S", "T", "U", "V", "W", "X", "Y", "Z">>

LOWERCASE == <<"a", "b", "c", "d", "e", "f", "g", "h", "i", "j", "k", "l", "m",
               "n", "o", "p", "q", "r", "s", "t", "u", "v", "w", "x", "y", "z">>

IsDigit(c) == \E k \in 1..Len(DIGITS) : DIGITS[k] = c

DigitVal(c) == (CHOOSE k \in 1..Len(DIGITS) : DIGITS[k] = c) - 1

\* str.lower() on one character
LowerChar(c) ==
    IF \E k \in 1..Len(UPPERCASE) : UPPERCASE[k] = c
    THEN LOWERCASE[CHOOSE k \in 1..Len(UPPERCASE) : UPPERCASE[k] = c]
    ELSE c

\* str.lower()
lower(s) == [k \in 1..Len(s) |-> LowerChar(s[k])]

SetMin(S) == CHOOSE x \in S : \A y \in S : x <= y

SetMax(S) == CHOOSE x \in S : \A y \in S : x >= y

\* str.strip(): leading and trailing whitespace removed
strip(s) ==
    LET keep == {k \in 1..Len(s) : s[k] \notin Whitespace}
    IN  IF keep = {} THEN <<>> ELSE SubSeq(s, SetMin(keep), SetMax(keep))

\* s.split(" ", 1)[0]: the text before the first space character
split_first(s) ==
    LET sp == {k \in 1..Len(s) : s[k] = " "}
    IN  IF sp = {} THEN s ELSE SubSeq(s, 1, SetMin(sp) - 1)

\* `needle in haystack` on str
Contains(haystack, needle) ==
    \E k \in 0..(Len(haystack) - Len(needle)) :
        SubSeq(haystack, k + 1, k + Len(needle)) = needle

----------------------------------------------------------------------------
(* datetime.strptime, as called at line 65: the format is compiled to a    *)
(* regular expression that must match the whole string; alternatives are   *)
(* tried in the order the expression lists them, with backtracking.        *)
(* Directives modelled: %Y %m %d %H %M %S %f %a %b %%.                     *)

DAY_NAMES == << <<"m","o","n">>, <<"t","u","e">>, <<"w","e","d">>, <<"t","h","u">>,
                <<"f","r","i">>, <<"s","a","t">>, <<"s","u","n">> >>

MONTH_NAMES == << <<"j","a","n">>, <<"f","e","b">>, <<"m","a","r">>, <<"a","p","r">>,
                  <<"m","a","y">>, <<"j","u","n">>, <<"j","u","l">>, <<"a","u","g">>,
                  <<"s","e","p">>, <<"o","c","t">>, <<"n","o","v">>, <<"d","e","c">> >>

Directives == {"Y", "m", "d", "H", "M", "S", "f", "a", "b", "%"}

NoCapture == [Y |-> 1900, m |-> 1, d |-> 1, H |-> 0, M |-> 0, S |-> 0, f |-> 0]

Failed == [ok |-> FALSE, cap |-> NoCapture]

RECURSIVE Pow10(_)
Pow10(n) == IF n = 0 THEN 1 ELSE 10 * Pow10(n - 1)

\* hi, the value of the leading digits (or -1), extended by the digit c
AddDigit(hi, c) == IF hi < 0 THEN -1 ELSE 10 * hi + DigitVal(c)

RECURSIVE NumAt(_, _, _)
\* the value of the n digits of tok that start at j, or -1 when they are not n digits
NumAt(tok, j, n) ==
    IF n = 0 THEN 0
    ELSE IF j + n - 1 > Len(tok) \/ ~IsDigit(tok[j + n - 1]) THEN -1
    ELSE AddDigit(NumAt(tok, j, n - 1), tok[j + n - 1])

\* the name of `names` that the three characters at j spell (case ignored), or 0
NameIndex(w, names) ==
    IF \E k \in 1..Len(names) : names[k] = w
    THEN CHOOSE k \in 1..Len(names) : names[k] = w
    ELSE 0

NameAt(tok, j, names) ==
    IF j + 2 > Len(tok) THEN 0 ELSE NameIndex(lower(SubSeq(tok, j, j + 2)), names)

\* one alternative of a directive: n digits whose value lies in lo..hi
AltIf(cond, n, v) == IF cond THEN << [len |-> n, val |-> v] >> ELSE <<>>

InRange(v, lo, hi, n) == AltIf(v >= lo /\ v <= hi, n, v)

DigitsAlt(tok, j, n, lo, hi) == InRange(NumAt(tok, j, n), lo, hi, n)

\* %f: n digits, read as a fraction of a second in microseconds
Fraction(v, n) == AltIf(v >= 0, n, v * Pow10(6 - n))

FractionAlt(tok, j, n) == Fraction(NumAt(tok, j, n), n)

NameAlt(k) == AltIf(k > 0, 3, k)

\* the alternatives of directive dir that match at j, in the expression's order
Alternatives(dir, tok, j) ==
    CASE dir = "Y" -> DigitsAlt(tok, j, 4, 0, 9999)
      [] dir = "m" -> DigitsAlt(tok, j, 2, 1, 12) \o DigitsAlt(tok, j, 1, 1, 9)
      [] dir = "d" -> DigitsAlt(tok, j, 2, 1, 31) \o DigitsAlt(tok, j, 1, 1, 9)
                      \o (IF j + 1 <= Len(tok) /\ tok[j] = " "
                          THEN InRange(NumAt(tok, j + 1, 1), 1, 9, 2)
                          ELSE <<>>)
      [] dir = "H" -> DigitsAlt(tok, j, 2, 0, 23) \o DigitsAlt(tok, j, 1, 0, 9)
      [] dir = "M" -> DigitsAlt(tok, j, 2, 0, 59) \o DigitsAlt(tok, j, 1, 0, 9)
      [] dir = "S" -> DigitsAlt(tok, j, 2, 0, 61) \o DigitsAlt(tok, j, 1, 0, 9)
      [] dir = "f" -> FractionAlt(tok, j, 6) \o FractionAlt(tok, j, 5)
                      \o FractionAlt(tok, j, 4) \o FractionAlt(tok, j, 3)
                      \o FractionAlt(tok, j, 2) \o FractionAlt(tok, j, 1)
      [] dir = "a" -> NameAlt(NameAt(tok, j, DAY_NAMES))
      [] dir = "b" -> NameAlt(NameAt(tok, j, MONTH_NAMES))
      [] dir = "%" -> AltIf(j <= Len(tok) /\ tok[j] = "%", 1, 0)
      [] OTHER -> <<>>

\* the group a directive captures into ("%b" gives the month, "%a" and "%%" nothing)
Capture(cap, dir, val) ==
    CASE dir = "b" -> [cap EXCEPT !.m = val]
      [] dir \in {"a", "%"} -> cap
      [] OTHER -> [cap EXCEPT ![dir] = val]

\* the length of the run of whitespace of s that starts at k
RECURSIVE SpaceRun(_, _)
SpaceRun(s, k) ==
    IF k > Len(s) \/ s[k] \notin Whitespace THEN 0 ELSE 1 + SpaceRun(s, k + 1)

\* r when it is a match, and otherwise the next thing to try
OrElse(r, other) == IF r.ok THEN r ELSE other

RECURSIVE Match(_, _, _, _, _)
RECURSIVE TryAlternatives(_, _, _, _, _, _, _)
RECURSIVE TrySpaces(_, _, _, _, _, _)

\* the first way, in backtracking order, to match fmt from i against tok from j
Match(fmt, i, tok, j, cap) ==
    IF i > Len(fmt) THEN
        IF j > Len(tok) THEN [ok |-> TRUE, cap |-> cap] ELSE Failed
    ELSE IF fmt[i] = "%" THEN
        IF i = Len(fmt) \/ fmt[i + 1] \notin Directives THEN Failed
        ELSE TryAlternatives(fmt, i + 2, tok, j, cap, fmt[i + 1],
                             Alternatives(fmt[i + 1], tok, j))
    ELSE IF fmt[i] \in Whitespace THEN
        TrySpaces(fmt, i + SpaceRun(fmt, i), tok, j, cap, SpaceRun(tok, j))
    ELSE IF j <= Len(tok) /\ LowerChar(tok[j]) = LowerChar(fmt[i]) THEN
        Match(fmt, i + 1, tok, j + 1, cap)
    ELSE Failed

TryAlternatives(fmt, i, tok, j, cap, dir, alts) ==
    IF alts = <<>> THEN Failed
    ELSE OrElse(Match(fmt, i, tok, j + Head(alts).len,
                      Capture(cap, dir, Head(alts).val)),
                TryAlternatives(fmt, i, tok, j, cap, dir, Tail(alts)))

\* \s+ is greedy: the longest run first, one character at least
TrySpaces(fmt, i, tok, j, cap, n) ==
    IF n < 1 THEN Failed
    ELSE OrElse(Match(fmt, i, tok, j + n, cap),
                TrySpaces(fmt, i, tok, j, cap, n - 1))

IsLeap(y) == y % 4 = 0 /\ (y % 100 # 0 \/ y % 400 = 0)

DaysInMonth(y, m) ==
    CASE m \in {4, 6, 9, 11} -> 30
      [] m = 2 -> IF IsLeap(y) THEN 29 ELSE 28
      [] OTHER -> 31

\* datetime.strptime(date_string, format): [ok |-> FALSE] stands for ValueError
\* the datetime of the captured groups; a date or time out of range is a ValueError
ToDatetime(ok, c) ==
    IF ok /\ c.Y >= 1 /\ c.d <= DaysInMonth(c.Y, c.m) /\ c.S <= 59
    THEN [ok |-> TRUE, dt |-> <<c.Y, c.m, c.d, c.H, c.M, c.S, c.f>>]
    ELSE [ok |-> FALSE, dt |-> None]

Matched(r) == ToDatetime(r.ok, r.cap)

strptime(date_string, format) == Matched(Match(format, 1, date_string, 1, NoCapture))

----------------------------------------------------------------------------
(* parse_log_entry *)

\* lines 65-70: one format tried on timestamp_str; `otherwise` is the rest of the loop
try_format(log_entry, timestamp_str, r, otherwise) ==
    IF r.ok
    THEN [dt |-> r.dt,
          description |->
              strip(SubSeq(log_entry, Len(timestamp_str) + 1, Len(log_entry)))]
    ELSE otherwise

RECURSIVE parse_from(_, _, _, _)
\* the loop of lines 61-75 from the k-th format on
parse_from(log_entry, timestamp_str, formats, k) ==
    IF k > Len(formats) THEN [dt |-> None, description |-> log_entry]
    ELSE try_format(log_entry, timestamp_str, strptime(timestamp_str, formats[k]),
                    parse_from(log_entry, timestamp_str, formats, k + 1))

RECURSIVE parse_last_from(_, _, _, _)
parse_last_from(log_entry, timestamp_str, formats, k) ==
    IF k < 1 THEN [dt |-> None, description |-> log_entry]
    ELSE try_format(log_entry, timestamp_str, strptime(timestamp_str, formats[k]),
                    parse_last_from(log_entry, timestamp_str, formats, k - 1))

\* parse_log_entry without the early return: the last format that parses wins
parse_log_entry_last_match(log_entry, formats) ==
    parse_last_from(log_entry, split_first(log_entry), formats, Len(formats))

parse_log_entry(log_entry, formats) ==
    parse_from(log_entry, split_first(log_entry), formats, 1)

----------------------------------------------------------------------------
(* Text constants: the formats of TIMESTAMP_FORMATS and the sample formats,
   log entries, file lines and keywords the inputs are drawn from *)

\* '%Y-%m-%d %H:%M:%S'
FMT_YMD_HMS ==
    <<"%", "Y", "-", "%", "m", "-", "%", "d", " ", "%", "H", ":", "%", "M", ":", "%",
      "S">>

\* '%Y-%m-%d %H:%M:%S.%f'
FMT_YMD_HMS_F ==
    <<"%", "Y", "-", "%", "m", "-", "%", "d", " ", "%", "H", ":", "%", "M", ":", "%",
      "S", ".", "%", "f">>

\* '%m/%d/%Y %H:%M:%S'
FMT_MDY_HMS ==
    <<"%", "m", "/", "%", "d", "/", "%", "Y", " ", "%", "H", ":", "%", "M", ":", "%",
      "S">>

\* '%m/%d/%Y %H:%M:%S.%f'
FMT_MDY_HMS_F ==
    <<"%", "m", "/", "%", "d", "/", "%", "Y", " ", "%", "H", ":", "%", "M", ":", "%",
      "S", ".", "%", "f">>

\* '%Y/%m/%d %H:%M:%S'
FMT_YMD_SLASH_HMS ==
    <<"%", "Y", "/", "%", "m", "/", "%", "d", " ", "%", "H", ":", "%", "M", ":", "%",
      "S">>

\* '%Y/%m/%d %H:%M:%S.%f'
FMT_YMD_SLASH_HMS_F ==
    <<"%", "Y", "/", "%", "m", "/", "%", "d", " ", "%", "H", ":", "%", "M", ":", "%",
      "S", ".", "%", "f">>

\* '%a %b %d %H:%M:%S %Y'
FMT_SYSLOG ==
    <<"%", "a", " ", "%", "b", " ", "%", "d", " ", "%", "H", ":", "%", "M", ":", "%",
      "S", " ", "%", "Y">>

\* '%a %b %d %H:%M:%S.%f %Y'
FMT_SYSLOG_F ==
    <<"%", "a", " ", "%", "b", " ", "%", "d", " ", "%", "H", ":", "%", "M", ":", "%",
      "S", ".", "%", "f", " ", "%", "Y">>

\* '%Y-%m-%d'
FMT_DATE ==
    <<"%", "Y", "-", "%", "m", "-", "%", "d">>

\* '%m/%d/%Y'
FMT_MDY ==
    <<"%", "m", "/", "%", "d", "/", "%", "Y">>

\* '%d/%m/%Y'
FMT_DMY ==
    <<"%", "d", "/", "%", "m", "/", "%", "Y">>

\* '%Y-%m-%dT%H:%M:%S'
FMT_ISO ==
    <<"%", "Y", "-", "%", "m", "-", "%", "d", "T", "%", "H", ":", "%", "M", ":", "%",
      "S">>

\* '2024-01-15 10:30:00 Disk failure detected'
ENTRY_SCENARIO1 ==
    <<"2", "0", "2", "4", "-", "0", "1", "-", "1", "5", " ", "1", "0", ":", "3", "0",
      ":", "0", "0", " ", "D", "i", "s", "k", " ", "f", "a", "i", "l", "u", "r", "e",
      " ", "d", "e", "t", "e", "c", "t", "e", "d">>

\* '2024-01-15\t10:30:00 Disk failure detected'
ENTRY_TAB ==
    <<"2", "0", "2", "4", "-", "0", "1", "-", "1", "5", "\t", "1", "0", ":", "3", "0",
      ":", "0", "0", " ", "D", "i", "s", "k", " ", "f", "a", "i", "l", "u", "r", "e",
      " ", "d", "e", "t", "e", "c", "t", "e", "d">>

\* '2024-01-15'
ENTRY_DATE_ONLY ==
    <<"2", "0", "2", "4", "-", "0", "1", "-", "1", "5">>

\* 'garbage line with no timestamp'
ENTRY_GARBAGE ==
    <<"g", "a", "r", "b", "a", "g", "e", " ", "l", "i", "n", "e", " ", "w", "i", "t",
      "h", " ", "n", "o", " ", "t", "i", "m", "e", "s", "t", "a", "m", "p">>

\* 'garbage'
ENTRY_WORD ==
    <<"g", "a", "r", "b", "a", "g", "e">>

\* '01/02/2024 Network ERROR occurred'
ENTRY_AMBIGUOUS ==
    <<"0", "1", "/", "0", "2", "/", "2", "0", "2", "4", " ", "N", "e", "t", "w", "o",
      "r", "k", " ", "E", "R", "R", "O", "R", " ", "o", "c", "c", "u", "r", "r", "e",
      "d">>

\* '01/02/2024'
ENTRY_AMBIGUOUS_WORD ==
    <<"0", "1", "/", "0", "2", "/", "2", "0", "2", "4">>

\* '13/02/2024 login'
ENTRY_DMY_ONLY ==
    <<"1", "3", "/", "0", "2", "/", "2", "0", "2", "4", " ", "l", "o", "g", "i", "n">>

\* '02/13/2024 logout'
ENTRY_MDY_ONLY ==
    <<"0", "2", "/", "1", "3", "/", "2", "0", "2", "4", " ", "l", "o", "g", "o", "u",
      "t">>

\* '2024-01-15T10:30:00 boot'
ENTRY_ISO ==
    <<"2", "0", "2", "4", "-", "0", "1", "-", "1", "5", "T", "1", "0", ":", "3", "0",
      ":", "0", "0", " ", "b", "o", "o", "t">>

\* '2024-02-30 x'
ENTRY_BAD_DATE ==
    <<"2", "0", "2", "4", "-", "0", "2", "-", "3", "0", " ", "x">>

\* 'Mon\tJan\t15\t10:30:00\t2024 syslog up'
ENTRY_SYSLOG ==
    <<"M", "o", "n", "\t", "J", "a", "n", "\t", "1", "5", "\t", "1", "0", ":", "3",
      "0", ":", "0", "0", "\t", "2", "0", "2", "4", " ", "s", "y", "s", "l", "o", "g",
      " ", "u", "p">>

\* '2024-01-15   padded \t text'
ENTRY_PADDED ==
    <<"2", "0", "2", "4", "-", "0", "1", "-", "1", "5", " ", " ", " ", "p", "a", "d",
      "d", "e", "d", " ", "\t", " ", "t", "e", "x", "t">>

\* '2024/01/15\t10:30:00.5 tick'
ENTRY_FRACTION ==
    <<"2", "0", "2", "4", "/", "0", "1", "/", "1", "5", "\t", "1", "0", ":", "3", "0",
      ":", "0", "0", ".", "5", " ", "t", "i", "c", "k">>

\* 'Disk failure detected'
DESC_SCENARIO1 ==
    <<"D", "i", "s", "k", " ", "f", "a", "i", "l", "u", "r", "e", " ", "d", "e", "t",
      "e", "c", "t", "e", "d">>

\* '2024-01-15 Disk ERROR\n'
A1 ==
    <<"2", "0", "2", "4", "-", "0", "1", "-", "1", "5", " ", "D", "i", "s", "k", " ",
      "E", "R", "R", "O", "R", "\n">>

\* ' \t\n'
A2 ==
    <<" ", "\t", "\n">>

\* 'garbage line\n'
A3 ==
    <<"g", "a", "r", "b", "a", "g", "e", " ", "l", "i", "n", "e", "\n">>

\* '2024-01-14 login ok\n'
A4 ==
    <<"2", "0", "2", "4", "-", "0", "1", "-", "1", "4", " ", "l", "o", "g", "i", "n",
      " ", "o", "k", "\n">>

\* 'bad\n'
B1 ==
    <<"b", "a", "d", "\n">>

\* '  2024-01-15 net error\n'
B2 ==
    <<" ", " ", "2", "0", "2", "4", "-", "0", "1", "-", "1", "5", " ", "n", "e", "t",
      " ", "e", "r", "r", "o", "r", "\n">>

\* '2024-01-15\t10:30:00 boot\n'
C1L ==
    <<"2", "0", "2", "4", "-", "0", "1", "-", "1", "5", "\t", "1", "0", ":", "3", "0",
      ":", "0", "0", " ", "b", "o", "o", "t", "\n">>

\* '01/02/2024 Error x'
C2L ==
    <<"0", "1", "/", "0", "2", "/", "2", "0", "2", "4", " ", "E", "r", "r", "o", "r",
      " ", "x">>

\* 'zzz'
KW_ZZZ ==
    <<"z", "z", "z">>

\* 'DISK'
KW_DISK ==
    <<"D", "I", "S", "K">>

----------------------------------------------------------------------------
(* Program constants *)

TIMESTAMP_FORMATS ==
    << FMT_YMD_HMS, FMT_YMD_HMS_F, FMT_MDY_HMS, FMT_MDY_HMS_F,
       FMT_YMD_SLASH_HMS, FMT_YMD_SLASH_HMS_F, FMT_SYSLOG, FMT_SYSLOG_F >>

EVENT_PRIORITIES ==
    [p \in {"critical", "high", "medium", "low", "info"} |->
        CASE p = "critical" -> 1
          [] p = "high" -> 2
          [] p = "medium" -> 3
          [] p = "low" -> 4
          [] p = "info" -> 5]

----------------------------------------------------------------------------
(* Bounds and inputs *)

MaxFiles == 2

MaxIoFailures == 1

\* the files on disk: path -> the lines iterating over the file yields
FileSystem ==
    [p \in {"a.log", "b.log", "c.log"} |->
        CASE p = "a.log" -> <<A1, A2, A3, A4>>
          [] p = "b.log" -> <<B1, B2>>
          [] p = "c.log" -> <<C1L, C2L>>]

Paths == DOMAIN FileSystem \cup {"missing.log"}

\* os.path.isfile
isfile(path) == path \in DOMAIN FileSystem

RECURSIVE SeqsUpTo(_, _)
\* the non-empty sequences over S of length n at most
SeqsUpTo(S, n) ==
    IF n = 0 THEN {}
    ELSE LET shorter == SeqsUpTo(S, n - 1)
         IN  {<<x>> : x \in S} \cup shorter \cup
             {Append(s, x) : s \in shorter, x \in S}

\* the values of --timestamp_format a run is started with (<<>>: option absent)
FormatOptions == { <<>>, <<FMT_DATE, FMT_MDY>> }

\* the values of --keywords a run is started with
KeywordOptions ==
    { [given |-> FALSE, list |-> <<>>],
      [given |-> TRUE, list |-> << <<>> >>],
      [given |-> TRUE, list |-> <<KW_ZZZ, KW_DISK>>] }

\* the arguments parse_log_entry is called alone with
Entries ==
    { ENTRY_SCENARIO1, ENTRY_TAB, ENTRY_DATE_ONLY, ENTRY_GARBAGE, ENTRY_WORD,
      ENTRY_AMBIGUOUS, ENTRY_AMBIGUOUS_WORD, ENTRY_DMY_ONLY, ENTRY_MDY_ONLY,
      ENTRY_ISO, ENTRY_BAD_DATE, ENTRY_SYSLOG, ENTRY_PADDED, ENTRY_FRACTION }

Grammars ==
    { TIMESTAMP_FORMATS, <<>>, <<FMT_DATE>>, <<FMT_MDY, FMT_DMY>>,
      <<FMT_DMY, FMT_MDY>>, <<FMT_ISO, FMT_DATE>>, <<FMT_DATE, FMT_MDY>> }

----------------------------------------------------------------------------
(* process_log_file *)

\* the keyword check without the two lower() calls
Retained_case_sensitive(description, kw) ==
    ~kw.given \/
    \E k \in 1..Len(kw.list) : Contains(description, kw.list[k])

\* the keyword check with a severity threshold: a line carries no severity and
\* counts as "info"
Retained_above_min_priority(description, kw) ==
    /\ EVENT_PRIORITIES["info"] <= min_priority_level
    /\ ~kw.given \/
       \E k \in 1..Len(kw.list) : Contains(lower(description), lower(kw.list[k]))

\* line 100: the keyword check
Retained(description, kw) ==
    ~kw.given \/
    \E k \in 1..Len(kw.list) : Contains(lower(description), lower(kw.list[k]))

\* lines 93-104: the body of the loop over the lines of the file, applied to
\* the raw line `raw`, the li-th of the fi-th file
\* the loop body without the test `if dt:` of line 99
handle_parsed_unchecked(st, r, line, path, fi, li, kw) ==
    IF Retained(r.description, kw)
    THEN [st EXCEPT !.parsed = @ \cup {<<fi, li>>},
                    !.events = Append(@, [timestamp |-> r.dt,
                                          description |-> r.description,
                                          source |-> path,
                                          origin |-> <<fi, li>>])]
    ELSE [st EXCEPT !.parsed = @ \cup {<<fi, li>>}]

\* lines 99-104: what is done with the result r of parse_log_entry on `line`
handle_parsed(st, r, line, path, fi, li, kw) ==
    IF r.dt # None
    THEN IF Retained(r.description, kw)
         THEN [st EXCEPT !.parsed = @ \cup {<<fi, li>>},
                         !.events = Append(@, [timestamp |-> r.dt,
                                               description |-> r.description,
                                               source |-> path,
                                               origin |-> <<fi, li>>])]
         ELSE [st EXCEPT !.parsed = @ \cup {<<fi, li>>}]
    ELSE [st EXCEPT !.parsed = @ \cup {<<fi, li>>},
                    !.warnings = Append(@, [line |-> line, source |-> path,
                                            origin |-> <<fi, li>>])]

\* the loop body without the test `if not line: continue` of line 94
handle_line_unskipped(st, line, path, fi, li, formats, kw) ==
    handle_parsed(st, parse_log_entry(line, formats), line, path, fi, li, kw)

\* lines 93-97: the stripped line is skipped when empty and parsed otherwise
handle_line(st, line, path, fi, li, formats, kw) ==
    IF line = <<>> THEN st
    ELSE handle_parsed(st, parse_log_entry(line, formats), line, path, fi, li, kw)

process_line(st, raw, path, fi, li, formats, kw) ==
    handle_line(st, strip(raw), path, fi, li, formats, kw)

\* an exception handler that drops what was collected
return_after_error_empty(evs) == <<>>

\* lines 106-110: what process_log_file returns once an exception is caught
return_after_error(evs) == evs

----------------------------------------------------------------------------
(* main: sorting *)

\* datetime comparison: a < b
RECURSIVE TupleLess(_, _, _)
TupleLess(a, b, k) ==
    IF k > Len(a) \/ k > Len(b) THEN FALSE
    ELSE IF a[k] # b[k] THEN a[k] < b[k]
    ELSE TupleLess(a, b, k + 1)

Before(a, b) == TupleLess(a, b, 1)

\* s with x put in at position p
InsertAt(s, p, x) == SubSeq(s, 1, p - 1) \o <<x>> \o SubSeq(s, p, Len(s))

RECURSIVE sort_values(_)
\* line 147: df.sort_values(by="timestamp") with the default kind, "quicksort",
\* which is not a stable sort: the rows come out in ascending order of the
\* timestamp, rows of equal timestamp in an order the sort does not promise.
\* The set of the orders it can return.
sort_values(rows) ==
    IF rows = <<>> THEN {<<>>}
    ELSE LET x == Head(rows)
         IN  UNION { { InsertAt(s, p, x) :
                         p \in {q \in 1..(Len(s) + 1) :
                                  /\ \A i \in 1..(q - 1) :
                                        ~Before(x.timestamp, s[i].timestamp)
                                  /\ \A i \in q..Len(s) :
                                        ~Before(s[i].timestamp, x.timestamp)} }
                   : s \in sort_values(Tail(rows)) }

----------------------------------------------------------------------------
(* The run of main() *)

NoOutput == [written |-> FALSE, rows |-> <<>>]

NoResult == [dt |-> None, description |-> <<>>]

Init ==
    /\ pc = "start"
    /\ log_files \in SeqsUpTo(Paths, MaxFiles)
    /\ tsf \in FormatOptions
    /\ keywords \in KeywordOptions
    /\ priority \in DOMAIN EVENT_PRIORITIES
    /\ timestamp_formats = <<>>
    /\ min_priority_level = 0
    /\ file_idx = 0
    /\ line_idx = 0
    /\ events = <<>>
    /\ all_events = <<>>
    /\ warnings = <<>>
    /\ errors = <<>>
    /\ parsed = {}
    /\ file_done = <<>>
    /\ timeline = <<>>
    /\ output = NoOutput
    /\ exit_status = -1
    /\ entry = <<>>
    /\ entry_formats = <<>>
    /\ entry_result = NoResult

unit_vars == <<entry, entry_formats, entry_result>>

args_vars == <<log_files, tsf, keywords, priority>>

\* the first path of log_files that is no file
FirstInvalid == SetMin({k \in 1..Len(log_files) : ~isfile(log_files[k])})

\* lines 123-127: a path that is no file: the error is logged and main returns
ValidateFail ==
    /\ pc = "start"
    /\ \E k \in 1..Len(log_files) : ~isfile(log_files[k])
    /\ errors' = Append(errors, <<"invalid_path", log_files[FirstInvalid]>>)
    /\ pc' = "done"
    /\ exit_status' = 0
    /\ UNCHANGED <<args_vars, unit_vars, timestamp_formats, min_priority_level,
                   file_idx, line_idx, events, all_events, warnings, parsed,
                   file_done, timeline, output>>

\* lines 123-138: every path is a file; the formats and the priority are resolved
Configure ==
    /\ pc = "start"
    /\ \A k \in 1..Len(log_files) : isfile(log_files[k])
    /\ timestamp_formats' = IF tsf # <<>> THEN tsf ELSE TIMESTAMP_FORMATS
    /\ min_priority_level' = EVENT_PRIORITIES[priority]
    /\ all_events' = <<>>
    /\ file_idx' = 1
    /\ pc' = "loop"
    /\ UNCHANGED <<args_vars, unit_vars, line_idx, events, warnings, errors,
                   parsed, file_done, timeline, output, exit_status>>

IoFailures == Cardinality({k \in 1..Len(file_done) : file_done[k].failed})

\* what main does with the list process_log_file returns (lines 140-141)
Returned(evs, failed) ==
    /\ all_events' = all_events \o evs
    /\ file_done' = Append(file_done, [read |-> line_idx, failed |-> failed])
    /\ events' = <<>>
    /\ line_idx' = 0
    /\ file_idx' = file_idx + 1
    /\ pc' = "loop"

\* lines 89-91: process_log_file is called and opens the file
OpenFile ==
    /\ pc = "loop"
    /\ file_idx <= Len(log_files)
    /\ events' = <<>>
    /\ line_idx' = 0
    /\ pc' = "reading"
    /\ UNCHANGED <<args_vars, unit_vars, timestamp_formats, min_priority_level,
                   file_idx, all_events, warnings, errors, parsed, file_done,
                   timeline, output, exit_status>>

\* lines 91, 106-110: open() raises (the file has gone, or cannot be read)
OpenError ==
    /\ pc = "loop"
    /\ file_idx <= Len(log_files)
    /\ IoFailures < MaxIoFailures
    /\ \E kind \in {"not_found", "processing"} :
          errors' = Append(errors, <<kind, log_files[file_idx]>>)
    /\ Returned(return_after_error(<<>>), TRUE)
    /\ UNCHANGED <<args_vars, unit_vars, timestamp_formats, min_priority_level,
                   warnings, parsed, timeline, output, exit_status>>

\* the lists as the loop body leaves them
LineHandled(st) ==
    /\ events' = st.events
    /\ warnings' = st.warnings
    /\ parsed' = st.parsed

\* lines 92-104: the next line of the file is read and handled
ReadLine ==
    /\ pc = "reading"
    /\ line_idx < Len(FileSystem[log_files[file_idx]])
    /\ LineHandled(process_line(
            [events |-> events, warnings |-> warnings, parsed |-> parsed],
            FileSystem[log_files[file_idx]][line_idx + 1],
            log_files[file_idx], file_idx, line_idx + 1,
            timestamp_formats, keywords))
    /\ line_idx' = line_idx + 1
    /\ UNCHANGED <<args_vars, unit_vars, pc, timestamp_formats, min_priority_level,
                   file_idx, all_events, errors, file_done, timeline, output,
                   exit_status>>

\* lines 92, 108-110: reading the next line raises an I/O error
ReadError ==
    /\ pc = "reading"
    /\ line_idx < Len(FileSystem[log_files[file_idx]])
    /\ IoFailures < MaxIoFailures
    /\ errors' = Append(errors, <<"processing", log_files[file_idx]>>)
    /\ Returned(return_after_error(events), TRUE)
    /\ UNCHANGED <<args_vars, unit_vars, timestamp_formats, min_priority_level,
                   warnings, parsed, timeline, output, exit_status>>

\* lines 92, 110: the file is exhausted and process_log_file returns
EndOfFile ==
    /\ pc = "reading"
    /\ line_idx = Len(FileSystem[log_files[file_idx]])
    /\ Returned(events, FALSE)
    /\ UNCHANGED <<args_vars, unit_vars, timestamp_formats, min_priority_level,
                   warnings, errors, parsed, timeline, output, exit_status>>

\* lines 144-148: the frame is not empty and is sorted by timestamp
SortFrame ==
    /\ pc = "loop"
    /\ file_idx > Len(log_files)
    /\ all_events # <<>>
    /\ timeline' \in sort_values(all_events)
    /\ pc' = "write"
    /\ UNCHANGED <<args_vars, unit_vars, timestamp_formats, min_priority_level,
                   file_idx, line_idx, events, all_events, warnings, errors,
                   parsed, file_done, output, exit_status>>

\* lines 155-156: the frame is empty: a warning, and main returns
NoEvents ==
    /\ pc = "loop"
    /\ file_idx > Len(log_files)
    /\ all_events = <<>>
    /\ warnings' = Append(warnings, [line |-> <<>>, source |-> "",
                                     origin |-> <<0, 0>>])
    /\ pc' = "done"
    /\ exit_status' = 0
    /\ UNCHANGED <<args_vars, unit_vars, timestamp_formats, min_priority_level,
                   file_idx, line_idx, events, all_events, errors, parsed,
                   file_done, timeline, output>>

\* lines 149-151: the CSV file is written and main returns
WriteCsv ==
    /\ pc = "write"
    /\ output' = [written |-> TRUE, rows |-> timeline]
    /\ pc' = "done"
    /\ exit_status' = 0
    /\ UNCHANGED <<args_vars, unit_vars, timestamp_formats, min_priority_level,
                   file_idx, line_idx, events, all_events, warnings, errors,
                   parsed, file_done, timeline>>

\* lines 152-153: writing the CSV file raises: the error is logged, main returns
WriteCsvError ==
    /\ pc = "write"
    /\ errors' = Append(errors, <<"csv", "">>)
    /\ pc' = "done"
    /\ exit_status' = 0
    /\ UNCHANGED <<args_vars, unit_vars, timestamp_formats, min_priority_level,
                   file_idx, line_idx, events, all_events, warnings, parsed,
                   file_done, timeline, output>>

Next ==
    \/ ValidateFail
    \/ Configure
    \/ OpenFile
    \/ OpenError
    \/ ReadLine
    \/ ReadError
    \/ EndOfFile
    \/ SortFrame
    \/ NoEvents
    \/ WriteCsv
    \/ WriteCsvError

Spec == Init /\ [][Next]_vars

----------------------------------------------------------------------------
(* parse_log_entry alone: one call on each entry and each list of formats *)

InitParse ==
    /\ pc = "call"
    /\ entry \in Entries
    /\ entry_formats \in Grammars
    /\ entry_result = NoResult
    /\ log_files = <<>>
    /\ tsf = <<>>
    /\ keywords = [given |-> FALSE, list |-> <<>>]
    /\ priority = "info"
    /\ timestamp_formats = <<>>
    /\ min_priority_level = 0
    /\ file_idx = 0
    /\ line_idx = 0
    /\ events = <<>>
    /\ all_events = <<>>
    /\ warnings = <<>>
    /\ errors = <<>>
    /\ parsed = {}
    /\ file_done = <<>>
    /\ timeline = <<>>
    /\ output = NoOutput
    /\ exit_status = -1

CallParse ==
    /\ pc = "call"
    /\ entry_result' = parse_log_entry(entry, entry_formats)
    /\ pc' = "returned"
    /\ UNCHANGED <<args_vars, entry, entry_formats, timestamp_formats,
                   min_priority_level, file_idx, line_idx, events, all_events,
                   warnings, errors, parsed, file_done, timeline, output,
                   exit_status>>

NextParse == CallParse

SpecParse == InitParse /\ [][NextParse]_vars

----------------------------------------------------------------------------
(* Vocabulary of the properties *)

Range(s) == {s[i] : i \in 1..Len(s)}

Origins(s) == {s[i].origin : i \in 1..Len(s)}

\* every event record the run holds so far
Collected == all_events \o events

\* the formats of the list that parse the token
Matching(token, formats) ==
    {k \in 1..Len(formats) : strptime(token, formats[k]).ok}

Recognized(line, formats) == Matching(split_first(line), formats) # {}

\* the point in time the first format that parses the line's token gives
FirstMatch(line, formats) ==
    strptime(split_first(line),
             formats[SetMin(Matching(split_first(line), formats))]).dt

\* the line without its token, trimmed
Remainder(line) == strip(SubSeq(line, Len(split_first(line)) + 1, Len(line)))

CaseInsensitiveSubstring(text, word) ==
    \E off \in 0..(Len(text) - Len(word)) :
        \A i \in 1..Len(word) : LowerChar(text[off + i]) = LowerChar(word[i])

PassesKeywords(description) ==
    ~keywords.given \/
    \E k \in 1..Len(keywords.list) :
        CaseInsensitiveSubstring(description, keywords.list[k])

\* the lists of formats a run can use
FormatLists == {TIMESTAMP_FORMATS} \cup (FormatOptions \ {<<>>})

\* for each list of formats and each line of each file: the stripped line,
\* whether a format parses its token, the time the first such format gives, and
\* the trimmed remainder (a table, so that each is worked out once)
LineFacts ==
    [formats \in FormatLists |->
        [path \in DOMAIN FileSystem |->
            [li \in 1..Len(FileSystem[path]) |->
                [line |-> strip(FileSystem[path][li]),
                 recognized |-> Recognized(strip(FileSystem[path][li]), formats),
                 dt |-> IF Recognized(strip(FileSystem[path][li]), formats)
                        THEN FirstMatch(strip(FileSystem[path][li]), formats)
                        ELSE None,
                 description |-> Remainder(strip(FileSystem[path][li]))]]]]

\* the facts of the line at origin o = <<file index, line index>> in this run
Facts(o) == LineFacts[timestamp_formats][log_files[o[1]]][o[2]]

\* the line at origin o is one an event is due for
Qualifies(o) ==
    /\ Facts(o).line # <<>>
    /\ Facts(o).recognized
    /\ PassesKeywords(Facts(o).description)

\* the lines of the fi-th file the run has consumed
Consumed(fi) ==
    IF fi <= Len(file_done) THEN file_done[fi].read
    ELSE IF pc = "reading" /\ fi = file_idx THEN line_idx
    ELSE 0

NoWhitespace(s) == \A k \in 1..Len(s) : s[k] \notin Whitespace

OriginBefore(a, b) == a[1] < b[1] \/ (a[1] = b[1] /\ a[2] < b[2])

Ascending(rows) ==
    \A i, j \in 1..Len(rows) :
        i < j => ~Before(rows[j].timestamp, rows[i].timestamp)

RECURSIVE ExpectedRows(_, _)
\* the event records due for the first n lines of the fi-th file
ExpectedRows(fi, n) ==
    IF n = 0 THEN <<>>
    ELSE IF Qualifies(<<fi, n>>)
    THEN Append(ExpectedRows(fi, n - 1),
                [timestamp |-> Facts(<<fi, n>>).dt,
                 description |-> Facts(<<fi, n>>).description,
                 source |-> log_files[fi],
                 origin |-> <<fi, n>>])
    ELSE ExpectedRows(fi, n - 1)

RECURSIVE ExpectedAll(_)
\* the event records due for the first k files, given the lines read of each
ExpectedAll(k) ==
    IF k = 0 THEN <<>>
    ELSE ExpectedAll(k - 1) \o ExpectedRows(k, file_done[k].read)

----------------------------------------------------------------------------
(* Properties of parse_log_entry (specification SpecParse) *)

\* C1: with the default formats, the entry "2024-01-15 10:30:00 Disk failure
\* detected" parses to 2024-01-15T10:30:00 with the description "Disk failure
\* detected".
Scenario1Recognized ==
    (pc = "returned" /\ entry = ENTRY_SCENARIO1 /\ entry_formats = TIMESTAMP_FORMATS)
    => entry_result = [dt |-> <<2024, 1, 15, 10, 30, 0, 0>>,
                       description |-> DESC_SCENARIO1]

SingleWordUnparsed ==
    (pc = "returned" /\ entry # <<>> /\ NoWhitespace(entry))
    => entry_result = [dt |-> None, description |-> entry]

----------------------------------------------------------------------------
(* Properties of a run (specification Spec) *)

\* C3: the rows of the timeline are in ascending order of timestamp, and rows
\* of equal timestamp are in input order (file argument order, then line order).
TimelineSortedStable ==
    pc \in {"write", "done"} =>
        /\ Ascending(timeline)
        /\ \A i, j \in 1..Len(timeline) :
              (i < j /\ timeline[i].timestamp = timeline[j].timestamp)
              => OriginBefore(timeline[i].origin, timeline[j].origin)

\* C4: a line whose timestamp was recognized gives an event exactly when no
\* keyword list was given or some keyword occurs in its description, case
\* ignored (so the empty keyword keeps every such line).
KeywordFilter ==
    \A o \in parsed :
        Facts(o).recognized
        => (o \in Origins(Collected) <=> PassesKeywords(Facts(o).description))

\* C4, its case: an event is kept though no keyword occurs in it letter for letter
KeywordMatchedIgnoringCase ==
    /\ keywords.given
    /\ \E i \in 1..Len(Collected) :
          \A k \in 1..Len(keywords.list) :
              ~Contains(Collected[i].description, keywords.list[k])
    /\ \E o \in parsed :
          Facts(o).recognized /\ o \notin Origins(Collected)

\* C5: when a named path is no file, the run ends in failure (a non-zero exit
\* status) with no file ingested and no output written.
MissingFileReportsFailure ==
    (pc = "done" /\ \E k \in 1..Len(log_files) : ~isfile(log_files[k]))
    => /\ exit_status # 0
       /\ file_done = <<>> /\ parsed = {} /\ all_events = <<>>
       /\ ~output.written

EventsCarryTimestamp ==
    /\ \A e \in Range(Collected) \cup Range(timeline) \cup Range(output.rows) :
          /\ e.timestamp # None
          /\ e.origin \in parsed
          /\ Facts(e.origin).recognized
          /\ e.timestamp = Facts(e.origin).dt
    /\ \A o \in parsed :
          ~Facts(o).recognized
          => /\ o \in Origins(warnings)
             /\ o \notin Origins(Collected) \cup Origins(timeline)
                         \cup Origins(output.rows)

\* C7, its case: a timeline was written by a run that also met a line with no
\* timestamp
TimelineWithUnparsedLine ==
    /\ pc = "done"
    /\ output.written
    /\ output.rows # <<>>
    /\ \E o \in parsed : ~Facts(o).recognized

\* C9: a file read without I/O failure is read to its end; of the lines
\* consumed, each non-blank one is parsed and gives its event when it parses
\* and passes the keywords, whatever the lines before it did, and each blank
\* one is neither parsed nor reported.
LinesIndependent ==
    \A fi \in 1..Len(log_files) :
        /\ (fi <= Len(file_done) /\ ~file_done[fi].failed)
           => file_done[fi].read = Len(FileSystem[log_files[fi]])
        /\ \A li \in 1..Consumed(fi) :
              IF Facts(<<fi, li>>).line = <<>>
              THEN /\ <<fi, li>> \notin parsed
                   /\ <<fi, li>> \notin Origins(warnings)
                   /\ <<fi, li>> \notin Origins(Collected)
              ELSE /\ <<fi, li>> \in parsed
                   /\ Qualifies(<<fi, li>>) => <<fi, li>> \in Origins(Collected)

\* C9, its case: in one file an event follows a line that failed to parse and
\* a blank line
EventAfterFailedLine ==
    \E fi \in 1..Len(file_done) :
        \E blank, bad, good \in 1..file_done[fi].read :
            /\ blank < good /\ bad < good
            /\ Facts(<<fi, blank>>).line = <<>>
            /\ <<fi, bad>> \in Origins(warnings)
            /\ <<fi, good>> \in Origins(all_events)

====
